---- MODULE Spec2Model ----
(***************************************************************************)
(* A model of the savings-jar analytics panel (AdvancedAnalytics) and of   *)
(* the memoised derivation of its statistics bundle.                       *)
(* The progress ring of a jar (CircleVisualization) is modelled beside it. *)
(*                                                                         *)
(* Time.  An instant is an integer number of hours since                   *)
(* 2023-01-01T00:00Z (a Sunday).  The host time zone is a fixed offset tz  *)
(* in hours (no daylight saving); a "local" quantity is the instant plus   *)
(* tz.  Calendar days are numbered from local 2023-01-01 (day 0) and       *)
(* months from January 2023 (month 0).  Amounts are integers; the          *)
(* quotients the code computes in floating point are kept as exact         *)
(* fractions.                                                              *)
(***************************************************************************)
EXTENDS Integers, Sequences, FiniteSets, TLC

VARIABLES
    jars,       \* props.jars: the jar collection of the latest render
    jarsRef,    \* identity of the props.jars array (a fresh array = a new number)
    darkMode,   \* props.darkMode
    now,        \* the system clock, read by new Date()
    tz,         \* the host's UTC offset in hours (fixed for a run)
    memoDeps,   \* useMemo: the jars reference the cached bundle was computed for
    analytics,  \* useMemo: the cached bundle
    memoNow,    \* the clock value the cached bundle's derivation read (const now)
    view,       \* what the latest render returned: "nodata" or "dashboard"
    circle      \* what the latest render of a jar's CircleVisualization drew

vars == <<jars, jarsRef, darkMode, now, tz, memoDeps, analytics, memoNow, view, circle>>

-----------------------------------------------------------------------------
(* Bounds of the model. *)

MaxJars == 1
MaxRecords == 1
MaxTicks == 1
MaxStreakRecords == 3
MaxDailyRecords == 1
MaxVelocityRecords == 2
MaxPredictAdds == 2
MaxProgress == 110

(* 24 * 60 * 60 * 1000 ms, in hours *)
HoursPerDay == 24

-----------------------------------------------------------------------------
(* Arithmetic helpers. *)

Min(a, b) == IF a < b THEN a ELSE b
Max(a, b) == IF a > b THEN a ELSE b
Abs(a) == IF a < 0 THEN 0 - a ELSE a

RECURSIVE Gcd(_, _)
Gcd(a, b) == IF b = 0 THEN a ELSE Gcd(b, a % b)

(* The JavaScript number n / d for integers n, d with d # 0, kept exactly  *)
(* as a fraction in lowest terms with a positive denominator.              *)
Frac(n, d) ==
    LET g == Gcd(Abs(n), Abs(d))
        s == IF d < 0 THEN 0 - 1 ELSE 1
    IN  [num |-> s * (n \div g), den |-> s * (d \div g)]

(* Math.ceil(n / d) for d > 0 *)
MathCeil(n, d) == 0 - ((0 - n) \div d)

-----------------------------------------------------------------------------
(* The calendar (date-fns over the host's local time).                     *)

IsLeapYear(y) == (y % 4 = 0) /\ ((y % 100 # 0) \/ (y % 400 = 0))

(* number of days of month mi (0 = January 2023) *)
DaysInMonth(mi) ==
    LET y == 2023 + (mi \div 12)
        m == (mi % 12) + 1
    IN  IF m = 2 THEN (IF IsLeapYear(y) THEN 29 ELSE 28)
        ELSE IF m \in {4, 6, 9, 11} THEN 30 ELSE 31

RECURSIVE MonthStartsUpTo(_)
MonthStartsUpTo(k) ==
    IF k = 0 THEN <<0>>
    ELSE LET p == MonthStartsUpTo(k - 1) IN Append(p, p[k] + DaysInMonth(k - 1))

(* the day numbers of the first days of months 0..48 *)
MonthStartTable == MonthStartsUpTo(48)

(* day number of the first day of month mi *)
MonthStart(mi) == MonthStartTable[mi + 1]

(* local calendar day and local hour of an instant *)
LocalDay(t) == (t + tz) \div HoursPerDay
LocalHour(t) == (t + tz) % HoursPerDay

(* the instant of local day d at local hour h *)
AtLocal(d, h) == d * HoursPerDay + h - tz

RECURSIVE MonthFrom(_, _)
MonthFrom(d, mi) == IF d < MonthStart(mi + 1) THEN mi ELSE MonthFrom(d, mi + 1)

(* the month holding day d; no month is longer than 31 days, so the search *)
(* starts at or before it                                                  *)
MonthOfDay(d) == MonthFrom(d, d \div 32)
MonthOf(t) == MonthOfDay(LocalDay(t))
DayOfMonth(t) == LocalDay(t) - MonthStart(MonthOf(t)) + 1

startOfMonth(t) == AtLocal(MonthStart(MonthOf(t)), 0)

(* 23:59:59.999 of the month's last day: the last instant before the next  *)
(* month starts                                                            *)
endOfMonth(t) == AtLocal(MonthStart(MonthOf(t) + 1), 0) - 1

(* same day of month n months earlier, clamped to that month's length,     *)
(* same local time of day                                                  *)
subMonths(t, n) ==
    LET mi == MonthOf(t) - n
        dom == Min(DayOfMonth(t), DaysInMonth(mi))
    IN  AtLocal(MonthStart(mi) + dom - 1, LocalHour(t))

(* date.setDate(date.getDate() + n): n local calendar days later, same     *)
(* local time of day                                                       *)
setDate(t, n) == AtLocal(LocalDay(t) + n, LocalHour(t))

(* getDay: 0 = Sunday .. 6 = Saturday; day 0 is a Sunday *)
getDay(t) == LocalDay(t) % 7

(* format(t, 'yyyy-MM-dd'): the local calendar date, written as its day    *)
(* number (the strings sort as the day numbers do)                         *)
formatYMD(t) == LocalDay(t)

(* new Date('yyyy-MM-dd'): a date-only string is read as midnight UTC *)
parseYMD(key) == key * HoursPerDay

(* format(t, 'MMM dd'): month of the year and day of the month *)
formatMMMdd(t) == <<(MonthOf(t) % 12) + 1, DayOfMonth(t)>>

Compare(a, b) == IF a < b THEN 0 - 1 ELSE IF a > b THEN 1 ELSE 0

(* differenceInDays(l, r): full days between r and l, truncated to zero *)
differenceInDays(l, r) ==
    LET sign == Compare(l, r)
        difference == Abs(LocalDay(l) - LocalDay(r))
        moved == setDate(l, 0 - sign * difference)
        isLastDayNotFull == IF Compare(moved, r) = 0 - sign THEN 1 ELSE 0
    IN  sign * (difference - isLastDayNotFull)

(* as if the interval's end were excluded *)
isWithinInterval_EndExcluded(t, interval) == interval.start <= t /\ t < interval.end

(* isWithinInterval: inclusive at both ends *)
isWithinInterval(t, interval) == interval.start <= t /\ t <= interval.end

(* isWithinInterval and eachDayOfInterval throw a RangeError on an         *)
(* interval whose start is after its end                                   *)
IntervalThrows(interval) == interval.start > interval.end

(* as if the end's day were left out *)
eachDayOfInterval_EndExcluded(interval) ==
    LET first == LocalDay(interval.start)
        last == LocalDay(interval.end)
    IN  [i \in 1..(last - first) |-> AtLocal(first + i - 1, 0)]

(* eachDayOfInterval: the start of every local day from the start's day    *)
(* through the end's day                                                   *)
eachDayOfInterval(interval) ==
    LET first == LocalDay(interval.start)
        last == LocalDay(interval.end)
    IN  [i \in 1..(last - first + 1) |-> AtLocal(first + i - 1, 0)]

-----------------------------------------------------------------------------
(* Sequence helpers (Array.prototype.filter, reduce, sort, slice).         *)

RECURSIVE SumAmounts(_)
(* .reduce((sum, t) => sum + t.amount, 0) *)
SumAmounts(s) == IF s = <<>> THEN 0 ELSE s[1].amount + SumAmounts(Tail(s))

IsSaved(r) == r.type = "saved"

RECURSIVE InsertByDate(_, _)
(* r placed after every element whose date is not later than its own *)
InsertByDate(s, r) ==
    IF s = <<>> THEN <<r>>
    ELSE IF s[Len(s)].date <= r.date THEN Append(s, r)
    ELSE Append(InsertByDate(SubSeq(s, 1, Len(s) - 1), r), s[Len(s)])

RECURSIVE SortByDate(_)
(* .sort((a, b) => a.date.getTime() - b.date.getTime()): ascending, stable *)
SortByDate(s) ==
    IF s = <<>> THEN <<>>
    ELSE InsertByDate(SortByDate(SubSeq(s, 1, Len(s) - 1)), s[Len(s)])

RECURSIVE SortedSeqOfSet(_)
(* [...set].sort() of a set of date keys *)
SortedSeqOfSet(S) ==
    IF S = {} THEN <<>>
    ELSE LET m == CHOOSE x \in S : \A y \in S : x <= y
         IN  <<m>> \o SortedSeqOfSet(S \ {m})

(* as if the whole array were kept *)
SliceLast_Whole(s, n) == s

(* .slice(-n) *)
SliceLast(s, n) == IF Len(s) <= n THEN s ELSE SubSeq(s, Len(s) - n + 1, Len(s))

RECURSIVE FlatRecords(_)
(* jars.flatMap(jar => (jar.records || []).map(...)) *)
FlatRecords(js) ==
    IF js = <<>> THEN <<>>
    ELSE [i \in 1..Len(js[1].records) |->
             [type |-> js[1].records[i].type,
              amount |-> js[1].records[i].amount,
              date |-> js[1].records[i].date,
              jarName |-> js[1].name]] \o FlatRecords(Tail(js))

-----------------------------------------------------------------------------
(* The derivation inside useMemo, for a jar collection js read at clock n. *)

currentMonth(n) == [start |-> startOfMonth(n), end |-> endOfMonth(n)]
lastMonth(n) ==
    [start |-> startOfMonth(subMonths(n, 1)), end |-> endOfMonth(subMonths(n, 1))]
last30Days(n) == eachDayOfInterval([start |-> subMonths(n, 1), end |-> n])

allTransactions(js) == SortByDate(FlatRecords(js))

currentMonthSavings(js, n) ==
    SumAmounts(SelectSeq(allTransactions(js),
        LAMBDA t : IsSaved(t) /\ isWithinInterval(t.date, currentMonth(n))))

lastMonthSavings(js, n) ==
    SumAmounts(SelectSeq(allTransactions(js),
        LAMBDA t : IsSaved(t) /\ isWithinInterval(t.date, lastMonth(n))))

velocityPercent(js, n) ==
    LET cur == currentMonthSavings(js, n)
        last == lastMonthSavings(js, n)
    IN  IF last > 0 THEN Frac((cur - last) * 100, last)
        ELSE IF cur > 0 THEN Frac(100, 1) ELSE Frac(0, 1)

(* jarTransactions.slice(-10) *)
RecentCount == 10

(* the jar's 'saved' records, ascending by date *)
jarTransactions(jar) == SortByDate(SelectSeq(jar.records, IsSaved))

(* null, and a value that may be null, as sequences of length 0 and 1 *)
Null == <<>>
Some(v) == <<v>>

(* the value jars.map returns for one jar *)
predictionOf(jar, n) ==
    LET jt == jarTransactions(jar)
    IN  IF Len(jt) < 2
        THEN [jarName |-> jar.name, prediction |-> Null, daysToGoal |-> Null,
              avgPerDay |-> Null]
        ELSE
        LET recentTransactions == SliceLast(jt, RecentCount)
            firstDate == recentTransactions[1].date
            lastDate == recentTransactions[Len(recentTransactions)].date
            diff == differenceInDays(lastDate, firstDate)
            daysBetween == IF diff = 0 THEN 1 ELSE diff
            total == SumAmounts(recentTransactions)
            avgPerDay == Frac(total, daysBetween)
            remaining == jar.target - jar.saved
            \* remaining / avgPerDay = remaining * daysBetween / total
            daysToGoal == IF remaining > 0 /\ avgPerDay.num > 0
                          THEN Some(MathCeil(remaining * avgPerDay.den, avgPerDay.num))
                          ELSE Null
            \* daysToGoal ? ... : null  (null and 0 are falsy)
            predictedDate == IF daysToGoal # Null /\ daysToGoal # Some(0)
                             THEN Some(n + daysToGoal[1] * HoursPerDay)
                             ELSE Null
        IN  [jarName |-> jar.name, prediction |-> predictedDate,
             daysToGoal |-> daysToGoal, avgPerDay |-> Some(avgPerDay)]

(* as if the final .filter were missing *)
predictions_Unfiltered(js, n) == [i \in 1..Len(js) |-> predictionOf(js[i], n)]

predictions(js, n) ==
    SelectSeq([i \in 1..Len(js) |-> predictionOf(js[i], n)],
              LAMBDA p : p.prediction # Null)

savedTransactions(js) == SelectSeq(allTransactions(js), IsSaved)

dayNames == <<"Sunday", "Monday", "Tuesday", "Wednesday", "Thursday", "Friday", "Saturday">>

dayOfWeekStats(js) ==
    LET st == savedTransactions(js)
    IN  [i \in 1..7 |->
            LET ofDay == SelectSeq(st, LAMBDA t : getDay(t.date) = i - 1)
            IN  [day |-> dayNames[i], amount |-> SumAmounts(ofDay), count |-> Len(ofDay)]]

RECURSIVE ReduceBest(_, _, _)
ReduceBest(stats, i, best) ==
    IF i > Len(stats) THEN best
    ELSE ReduceBest(stats, i + 1, IF stats[i].amount > best.amount THEN stats[i] ELSE best)

RECURSIVE ReduceWorst(_, _, _)
ReduceWorst(stats, i, worst) ==
    IF i > Len(stats) THEN worst
    ELSE ReduceWorst(stats, i + 1,
            IF stats[i].amount < worst.amount /\ stats[i].count > 0 THEN stats[i] ELSE worst)

(* reduce without an initial value starts from the first element *)
bestSavingDay(js) == ReduceBest(dayOfWeekStats(js), 2, dayOfWeekStats(js)[1])
worstSavingDay(js) == ReduceWorst(dayOfWeekStats(js), 2, dayOfWeekStats(js)[1])

weekendSavings(js) ==
    SumAmounts(SelectSeq(allTransactions(js),
        LAMBDA t : IsSaved(t) /\ (getDay(t.date) = 0 \/ getDay(t.date) = 6)))

(* as if Monday were left out: getDay > 1 *)
weekdaySavings_FromTuesday(js) ==
    SumAmounts(SelectSeq(allTransactions(js),
        LAMBDA t : IsSaved(t) /\ getDay(t.date) > 1 /\ getDay(t.date) < 6))

weekdaySavings(js) ==
    SumAmounts(SelectSeq(allTransactions(js),
        LAMBDA t : IsSaved(t) /\ getDay(t.date) > 0 /\ getDay(t.date) < 6))

(* the set of the 'yyyy-MM-dd' keys of the saved transactions *)
savingDates(js) ==
    LET st == savedTransactions(js)
    IN  {formatYMD(st[i].date) : i \in 1..Len(st)}

uniqueDates(js) == SortedSeqOfSet(savingDates(js))

RECURSIVE currentStreakLoop(_, _, _, _)
(* for (i = length - 1; i >= 0; i--): streakCount and currentStreak are    *)
(* incremented together, so one counter stands for both                    *)
currentStreakLoop(ud, i, streakCount, n) ==
    IF i < 1 THEN streakCount
    ELSE LET date == parseYMD(ud[i])
             expectedDate == setDate(n, 0 - streakCount)
         IN  IF formatYMD(date) = formatYMD(expectedDate)
             THEN currentStreakLoop(ud, i - 1, streakCount + 1, n)
             ELSE streakCount

currentStreak(js, n) == currentStreakLoop(uniqueDates(js), Len(uniqueDates(js)), 0, n)

RECURSIVE longestStreakLoop(_, _, _, _)
(* for (i = 1; i < length; i++), with tempStreak and longestStreak *)
longestStreakLoop(ud, i, tempStreak, longest) ==
    IF i > Len(ud) THEN longest
    ELSE LET diff == differenceInDays(parseYMD(ud[i]), parseYMD(ud[i - 1]))
         IN  IF diff = 1
             THEN longestStreakLoop(ud, i + 1, tempStreak + 1, Max(longest, tempStreak + 1))
             ELSE longestStreakLoop(ud, i + 1, 1, longest)

longestStreak(js) == longestStreakLoop(uniqueDates(js), 2, 1, 0)

dailySavingsData(js, n) ==
    LET days == last30Days(n)
        all == allTransactions(js)
    IN  [k \in 1..Len(days) |->
            [date |-> formatMMMdd(days[k]),
             amount |-> SumAmounts(SelectSeq(all,
                 LAMBDA t : IsSaved(t) /\ formatYMD(t.date) = formatYMD(days[k])))]]

chartColors == <<"#8b5cf6", "#ec4899", "#3b82f6", "#10b981", "#f59e0b", "#ef4444">>

(* jar.name is a sequence of characters *)
jarDistribution(js) ==
    [i \in 1..Len(js) |->
        [name |-> IF Len(js[i].name) > 15
                  THEN SubSeq(js[i].name, 1, 15) \o <<".", ".", ".">>
                  ELSE js[i].name,
         value |-> js[i].saved,
         color |-> chartColors[((i - 1) % Len(chartColors)) + 1]]]

weekWindow(n, i) ==
    LET weekStart == setDate(subMonths(n, 0), 0 - i * 7)
    IN  [start |-> weekStart, end |-> setDate(weekStart, 6)]

(* pushed for i = 3, 2, 1, 0: entry k is the window of i = 4 - k *)
weeklyData(js, n) ==
    LET all == allTransactions(js)
    IN  [k \in 1..4 |->
            [week |-> <<"Week", k>>,
             amount |-> SumAmounts(SelectSeq(all,
                 LAMBDA t : IsSaved(t) /\ isWithinInterval(t.date, weekWindow(n, 4 - k))))]]

RECURSIVE totalSaved(_)
totalSaved(js) == IF js = <<>> THEN 0 ELSE js[1].saved + totalSaved(Tail(js))

(* whether the derivation throws: a date-fns interval with start after end *)
derivationThrows(js, n) ==
    \/ IntervalThrows([start |-> subMonths(n, 1), end |-> n])
    \/ /\ savedTransactions(js) # <<>>
       /\ \/ IntervalThrows(currentMonth(n))
          \/ IntervalThrows(lastMonth(n))
          \/ \E i \in 0..3 : IntervalThrows(weekWindow(n, i))

(* the object the useMemo callback returns *)
computeAnalytics(js, n) ==
    IF derivationThrows(js, n) THEN [threw |-> TRUE]
    ELSE
    [threw |-> FALSE,
     velocityPercent |-> velocityPercent(js, n),
     currentMonthSavings |-> currentMonthSavings(js, n),
     lastMonthSavings |-> lastMonthSavings(js, n),
     predictions |-> predictions(js, n),
     dayOfWeekStats |-> dayOfWeekStats(js),
     bestSavingDay |-> bestSavingDay(js),
     worstSavingDay |-> worstSavingDay(js),
     weekendSavings |-> weekendSavings(js),
     weekdaySavings |-> weekdaySavings(js),
     currentStreak |-> currentStreak(js, n),
     longestStreak |-> longestStreak(js),
     dailySavingsData |-> dailySavingsData(js, n),
     jarDistribution |-> jarDistribution(js),
     weeklyData |-> weeklyData(js, n),
     totalSaved |-> totalSaved(js)]

-----------------------------------------------------------------------------
(* The component.                                                          *)

TotalRecords(js) == Len(FlatRecords(js))

(* as if the dependency list were []: the first bundle is kept for ever *)
depsUnchanged_EmptyList(newRef) == TRUE

(* useMemo(..., [jars]): the cached value is kept when the dependency is   *)
(* the same reference as at the previous render                            *)
depsUnchanged(newRef) == newRef = memoDeps

(* as if the card were chosen by the absence of records *)
renderedView_ByRecords(js) == IF TotalRecords(js) = 0 THEN "nodata" ELSE "dashboard"

(* if (jars.length === 0) return the "no data" card *)
renderedView(js) == IF Len(js) = 0 THEN "nodata" ELSE "dashboard"

(* One call of AdvancedAnalytics({ jars, darkMode }). *)
Render(newJars, newRef, newDark) ==
    /\ jars' = newJars
    /\ jarsRef' = newRef
    /\ darkMode' = newDark
    /\ IF depsUnchanged(newRef)
       THEN UNCHANGED <<memoDeps, analytics, memoNow>>
       ELSE /\ memoDeps' = newRef
            /\ memoNow' = now
            /\ analytics' = computeAnalytics(newJars, now)
    /\ view' = renderedView(newJars)
    /\ UNCHANGED <<now, tz, circle>>

(* An array the previous render did not receive.  useMemo compares a       *)
(* dependency with the previous render's only, so two identities suffice.  *)
FreshRef == 1 - jarsRef

(* The parent renders the panel with a new array holding one more jar. *)
RenderNewJar(jar, maxJars) ==
    /\ Len(jars) < maxJars
    /\ Render(Append(jars, jar), FreshRef, darkMode)

(* The parent renders the panel with a new array in which jar j has one    *)
(* more record.                                                            *)
RenderNewRecord(j, r, maxRecords) ==
    /\ j \in 1..Len(jars)
    /\ TotalRecords(jars) < maxRecords
    /\ Render([jars EXCEPT ![j].records = Append(@, r)], FreshRef, darkMode)

(* The parent renders the panel with a new array of the same jars. *)
RenderCopy == Render(jars, FreshRef, darkMode)

(* The parent renders the panel with a new, empty array. *)
RenderNoJars ==
    /\ jars # <<>>
    /\ Render(<<>>, FreshRef, darkMode)

(* The parent renders the panel with the same array and the theme flipped. *)
ToggleTheme == Render(jars, jarsRef, ~darkMode)

(* The system clock advances by step hours, no later than horizon. *)
ClockAdvance(step, horizon) ==
    /\ now + step <= horizon
    /\ now' = now + step
    /\ UNCHANGED <<jars, jarsRef, darkMode, tz, memoDeps, analytics, memoNow, view, circle>>

(* The progress ring of a jar (CircleVisualization).  progress is the      *)
(* percentage the parent passes, here an integer.  Lengths along the ring  *)
(* are kept in units of pi, so that 2 * Math.PI * radius is the integer    *)
(* 2 * radius; quotients are exact fractions.                              *)

size(isLarge) == IF isLarge THEN 280 ELSE 140
strokeWidth(isLarge) == IF isLarge THEN 16 ELSE 10
radius(isLarge) == (size(isLarge) - strokeWidth(isLarge)) \div 2
circumference(isLarge) == 2 * radius(isLarge)

redProgress(progress) == Min(progress, 25)
orangeProgress(progress) == Min(Max(progress - 25, 0), 25)
blueProgress(progress) == Min(Max(progress - 50, 0), 25)
greenProgress(progress) == Min(Max(progress - 75, 0), 25)

(* circumference - (segment / 25) * circumference *)
redOffset(progress, isLarge) ==
    Frac(25 * circumference(isLarge) - redProgress(progress) * circumference(isLarge), 25)
orangeOffset(progress, isLarge) ==
    Frac(25 * circumference(isLarge) - orangeProgress(progress) * circumference(isLarge), 25)
blueOffset(progress, isLarge) ==
    Frac(25 * circumference(isLarge) - blueProgress(progress) * circumference(isLarge), 25)
greenOffset(progress, isLarge) ==
    Frac(25 * circumference(isLarge) - greenProgress(progress) * circumference(isLarge), 25)

(* the rotate(..deg) of each segment's circle; the red one has none *)
redRotation(progress) == Frac(0, 1)
orangeRotation(progress) == Frac(redProgress(progress) * 90, 25)
blueRotation(progress) ==
    Frac((redProgress(progress) + orangeProgress(progress)) * 90, 25)
greenRotation(progress) ==
    Frac((redProgress(progress) + orangeProgress(progress) + blueProgress(progress)) * 90, 25)

(* One segment of the ring: its length in percent, whether its <circle> is *)
(* rendered, and the stroke attributes and rotation the <circle> gets.     *)
Segment(color, length, offset, rotation, isLarge) ==
    [color |-> color,
     length |-> length,
     drawn |-> length > 0,
     strokeDasharray |-> circumference(isLarge),
     strokeDashoffset |-> offset,
     rotation |-> rotation]

(* What the component returns: the four segments, in painting order. *)
CircleVisualization(progress, isLarge) ==
    [progress |-> progress,
     isLarge |-> isLarge,
     segments |->
        << Segment("red", redProgress(progress),
                   redOffset(progress, isLarge), redRotation(progress), isLarge),
           Segment("orange", orangeProgress(progress),
                   orangeOffset(progress, isLarge), orangeRotation(progress), isLarge),
           Segment("blue", blueProgress(progress),
                   blueOffset(progress, isLarge), blueRotation(progress), isLarge),
           Segment("green", greenProgress(progress),
                   greenOffset(progress, isLarge), greenRotation(progress), isLarge) >>]

(* The parent renders a jar's ring with the given props. *)
RenderCircle(progress, isLarge) ==
    /\ circle' = CircleVisualization(progress, isLarge)
    /\ UNCHANGED <<jars, jarsRef, darkMode, now, tz, memoDeps, analytics, memoNow, view>>

(* The state after the first render: props js, clock n, host zone z; the   *)
(* ring of a jar with nothing saved.                                       *)
Mounted(js, n, z) ==
    /\ tz = z
    /\ now = n
    /\ jars = js
    /\ jarsRef = 0
    /\ darkMode = FALSE
    /\ memoDeps = 0
    /\ memoNow = n
    /\ analytics = computeAnalytics(js, n)
    /\ view = renderedView(js)
    /\ circle = CircleVisualization(0, FALSE)

-----------------------------------------------------------------------------
(* Inputs of the behaviours explored.                                      *)

(* host zones: west of UTC, UTC, east of UTC *)
TimeZones == {0 - 5, 0, 5}

(* local day number of 2024-03-30, a Saturday *)
BaseDay == MonthStart(14) + 29

(* the instant of UTC hour h, d days after the base day *)
At(d, h) == (BaseDay + d) * HoursPerDay + h

JarNamed(nm, target, saved) == [name |-> nm, target |-> target, saved |-> saved, records |-> <<>>]
Rec(type, amount, date) == [type |-> type, amount |-> amount, date |-> date]

ShortName == <<"C", "a", "r">>
LongName == <<"E", "m", "e", "r", "g", "e", "n", "c", "y", " ", "f", "u", "n", "d", " ", "1">>

-----------------------------------------------------------------------------
(* Spec: the panel's life.  Jars and records arrive, the array is          *)
(* replaced or emptied, the theme flips, the clock runs.                   *)

LifeJars == {JarNamed(ShortName, 100, 50), JarNamed(LongName, 50, 50)}
LifeRecords == {Rec("saved", 10, At(0 - 1, 12)), Rec("saved", 10, At(0, 12)),
                Rec("withdrawn", 10, At(0, 12))}
LifeHorizon == At(0, 13) + MaxTicks * 12

Init == \E z \in TimeZones : Mounted(<<>>, At(0, 13), z)

Next ==
    \/ \E jar \in LifeJars : RenderNewJar(jar, MaxJars)
    \/ \E j \in 1..MaxJars, r \in LifeRecords : RenderNewRecord(j, r, MaxRecords)
    \/ RenderCopy
    \/ RenderNoJars
    \/ ToggleTheme
    \/ ClockAdvance(12, LifeHorizon)

Spec == Init /\ [][Next]_vars

-----------------------------------------------------------------------------
(* Properties of Spec.                                                     *)

(* C8: a render with the same jars reference keeps the cached bundle,      *)
(* whatever the clock and the theme; a render with another reference       *)
(* replaces it by the derivation over the new collection at the current    *)
(* clock.                                                                  *)
MemoKeyedOnJarsReference ==
    [][IF jarsRef' = jarsRef
       THEN analytics' = analytics
       ELSE analytics' = computeAnalytics(jars', now)]_vars

(* C8 witness: after a render with the same reference (the theme was       *)
(* flipped) the bundle shown is not the one a derivation at the current    *)
(* clock would give.                                                       *)
MemoReusedWitness ==
    /\ darkMode
    /\ jars # <<>>
    /\ now > memoNow
    /\ analytics # computeAnalytics(jars, now)

(* C9: the "no data" card is shown exactly when the collection is empty,   *)
(* and the bundle derived from an empty collection is the zero bundle,     *)
(* derived without an exception.                                           *)
EmptyCollectionNoData ==
    /\ view = (IF jars = <<>> THEN "nodata" ELSE "dashboard")
    /\ jars = <<>> =>
          /\ ~analytics.threw
          /\ analytics.velocityPercent = Frac(0, 1)
          /\ analytics.currentStreak = 0
          /\ analytics.longestStreak = 0
          /\ analytics.predictions = <<>>
          /\ analytics.jarDistribution = <<>>
          /\ analytics.totalSaved = 0
          /\ analytics.currentMonthSavings = 0
          /\ analytics.lastMonthSavings = 0
          /\ analytics.weekendSavings = 0
          /\ analytics.weekdaySavings = 0
          /\ \A k \in 1..Len(analytics.dailySavingsData) :
                analytics.dailySavingsData[k].amount = 0

(* C9 witness: the panel showed jars, was then given a new empty array,    *)
(* derived the bundle again and shows the "no data" card.                  *)
EmptyAgainWitness ==
    /\ jars = <<>>
    /\ view = "nodata"
    /\ memoNow > At(0, 13)

(* a collection of jars without a single record is not the empty state *)
JarsWithoutRecordsWitness ==
    /\ jars # <<>>
    /\ TotalRecords(jars) = 0
    /\ view = "dashboard"

-----------------------------------------------------------------------------
(* SpecStreak: one jar; records dated around today (a Saturday) arrive in  *)
(* any order: savings at noon UTC of the three days before today, of today *)
(* and of tomorrow, a saving late on Sunday evening UTC (Monday east of    *)
(* UTC) and a withdrawal today, while the clock may pass into tomorrow.    *)

StreakRecords ==
    {Rec("saved", 10, At(d, 12)) : d \in (0 - 3)..1}
        \cup {Rec("saved", 25, At(1, 22)), Rec("withdrawn", 10, At(0, 12))}

InitStreak == \E z \in TimeZones : Mounted(<<JarNamed(ShortName, 100, 50)>>, At(0, 13), z)

NextStreak ==
    \/ \E r \in StreakRecords : RenderNewRecord(1, r, MaxStreakRecords)
    \/ ClockAdvance(HoursPerDay, At(1, 13))

SpecStreak == InitStreak /\ [][NextStreak]_vars

(* the positions <<jar, record>> of the saved records *)
SavedPositions(js) ==
    {p \in (1..Len(js)) \X (1..TotalRecords(js)) :
        /\ p[2] <= Len(js[p[1]].records)
        /\ js[p[1]].records[p[2]].type = "saved"}

RecordAt(js, p) == js[p[1]].records[p[2]]

RECURSIVE SumAt(_, _)
(* the sum of the amounts of the records at the positions P *)
SumAt(js, P) ==
    IF P = {} THEN 0
    ELSE LET p == CHOOSE q \in P : TRUE
         IN  RecordAt(js, p).amount + SumAt(js, P \ {p})

(* the local calendar days on which some jar has a saved record *)
SavedDays(js) == {LocalDay(RecordAt(js, p).date) : p \in SavedPositions(js)}

(* the number of consecutive days ending today that are all in S *)
RunEndingAt(S, today) ==
    CHOOSE k \in 0..Cardinality(S) :
        /\ \A i \in 0..(k - 1) : (today - i) \in S
        /\ (today - k) \notin S

(* the length of the longest run of consecutive days in S *)
MaxRun(S) ==
    CHOOSE k \in 0..Cardinality(S) :
        /\ k > 0 => \E d \in S : \A i \in 0..(k - 1) : (d + i) \in S
        /\ ~ \E d \in S : \A i \in 0..k : (d + i) \in S

(* C1: the longest streak is at least the current streak. *)
LongestAtLeastCurrent == analytics.longestStreak >= analytics.currentStreak

(* C3: the longest streak is the length of the longest run of consecutive  *)
(* calendar days having a saved record, for every non-empty set of days.   *)
LongestIsMaxRun ==
    SavedDays(jars) # {} => analytics.longestStreak = MaxRun(SavedDays(jars))

(* C10: the current streak is the number of consecutive calendar days,     *)
(* counted back from today, that each have a saved record.                 *)
CurrentIsRunFromToday ==
    analytics.currentStreak = RunEndingAt(SavedDays(jars), LocalDay(memoNow))

(* C4: the weekend total is the sum of the saved amounts dated on a local  *)
(* Saturday or Sunday, the weekday total the sum of those dated Monday to  *)
(* Friday, and together they are the sum of all saved amounts; withdrawn   *)
(* records are in neither.                                                 *)
WeekendWeekdayPartition ==
    LET weekend == {p \in SavedPositions(jars) :
                       LocalDay(RecordAt(jars, p).date) % 7 \in {0, 6}}
    IN  /\ analytics.weekendSavings = SumAt(jars, weekend)
        /\ analytics.weekdaySavings = SumAt(jars, SavedPositions(jars) \ weekend)
        /\ analytics.weekendSavings + analytics.weekdaySavings
               = SumAt(jars, SavedPositions(jars))

(* C4 witness: a Saturday saving, a saving on Sunday 22:00 UTC that is a   *)
(* Monday saving in a zone east of UTC, and a withdrawal.                  *)
WeekendWeekdayWitness ==
    /\ tz = 5
    /\ analytics.weekendSavings = 10
    /\ analytics.weekdaySavings = 25
    /\ \E k \in 1..Len(jars[1].records) : jars[1].records[k].type = "withdrawn"

-----------------------------------------------------------------------------
(* SpecDaily: the panel is mounted with one jar at 13:00 UTC of any day of *)
(* January to May 2024 or of March 2025 (the month before has 31, 31, 29,  *)
(* 31, 30 and 28 days); a record dated relative to that instant arrives:   *)
(* now, 22:00 UTC of the day before (today in a zone east of UTC), a day   *)
(* ahead, one month before and the day before that.                        *)

SweepDays == (MonthStart(12)..(MonthStart(17) - 1)) \cup (MonthStart(26)..(MonthStart(27) - 1))

DailyRecords(n) ==
    {Rec("saved", 10, n), Rec("withdrawn", 10, n),
     Rec("saved", 25, n - 15), Rec("saved", 10, n + HoursPerDay),
     Rec("saved", 10, subMonths(n, 1)), Rec("saved", 10, subMonths(n, 1) - HoursPerDay)}

InitDaily ==
    \E z \in TimeZones, d \in SweepDays :
        Mounted(<<JarNamed(ShortName, 100, 50)>>, d * HoursPerDay + 13, z)

NextDaily == \E r \in DailyRecords(now) : RenderNewRecord(1, r, MaxDailyRecords)

SpecDaily == InitDaily /\ [][NextDaily]_vars

(* the day with the same day of the month in the month before day d, or    *)
(* that month's last day when it is shorter                                *)
OneMonthBefore(d) ==
    LET mi == MonthOfDay(d)
        dom == d - MonthStart(mi) + 1
    IN  IF dom <= DaysInMonth(mi - 1)
        THEN MonthStart(mi - 1) + dom - 1
        ELSE MonthStart(mi) - 1

(* the daily series has one entry per calendar day from first to today,    *)
(* in order, each holding that day's label and the sum of the saved        *)
(* amounts dated that day                                                  *)
DailySeriesCovers(first, today) ==
    /\ Len(analytics.dailySavingsData) = today - first + 1
    /\ \A k \in 1..Len(analytics.dailySavingsData) :
          LET d == first + k - 1
              mi == MonthOfDay(d)
          IN  /\ analytics.dailySavingsData[k].date = <<(mi % 12) + 1, d - MonthStart(mi) + 1>>
              /\ analytics.dailySavingsData[k].amount =
                     SumAt(jars, {p \in SavedPositions(jars) :
                                     LocalDay(RecordAt(jars, p).date) = d})

-----------------------------------------------------------------------------
(* SpecVelocity: the panel is mounted with one jar on 2024-01-15, on       *)
(* 2024-03-01 at 02:00 UTC (still February west of UTC) or on 2024-03-31   *)
(* (no 31st in February); records dated at the first and last instants of  *)
(* the current and the previous month, and just outside them, arrive.      *)

VelocityNows == {MonthStart(12) * HoursPerDay + 14 * HoursPerDay + 13,
                 MonthStart(14) * HoursPerDay + 2,
                 MonthStart(14) * HoursPerDay + 30 * HoursPerDay + 13}

MonthEdges(n) ==
    {startOfMonth(n), endOfMonth(n), endOfMonth(n) + 1,
     startOfMonth(n) - 1, startOfMonth(subMonths(n, 1)), startOfMonth(subMonths(n, 1)) - 1}

VelocityRecords(n) ==
    {Rec("saved", a, t) : a \in {10, 25}, t \in MonthEdges(n)}
        \cup {Rec("withdrawn", 10, t) : t \in {endOfMonth(n), startOfMonth(n) - 1}}

InitVelocity ==
    \E z \in TimeZones, n \in VelocityNows :
        Mounted(<<JarNamed(ShortName, 100, 50)>>, n, z)

NextVelocity == \E r \in VelocityRecords(now) : RenderNewRecord(1, r, MaxVelocityRecords)

SpecVelocity == InitVelocity /\ [][NextVelocity]_vars

(* the sum of the saved amounts dated in the local calendar month mi *)
SavedInMonth(js, mi) ==
    SumAt(js, {p \in SavedPositions(js) : MonthOfDay(LocalDay(RecordAt(js, p).date)) = mi})

(* C5: with current and last the sums of the saved amounts dated in the    *)
(* calendar month of now and in the one before, the velocity is            *)
(* (current - last) / last * 100 when last > 0, 100 when last = 0 and      *)
(* current > 0, and 0 when both are 0.                                     *)
VelocityOfCalendarMonths ==
    LET cur == SavedInMonth(jars, MonthOfDay(LocalDay(memoNow)))
        last == SavedInMonth(jars, MonthOfDay(LocalDay(memoNow)) - 1)
        v == analytics.velocityPercent
    IN  /\ analytics.currentMonthSavings = cur
        /\ analytics.lastMonthSavings = last
        /\ v.den > 0
        /\ last > 0 => v.num * last = (cur - last) * 100 * v.den
        /\ (last = 0 /\ cur > 0) => (v.num = 100 /\ v.den = 1)
        /\ (last = 0 /\ cur = 0) => v.num = 0

(* C5 witness: 10 saved at the last instant of this month and 25 at the    *)
(* last instant of the previous month: velocity -60.                       *)
VelocityWitness ==
    /\ analytics.velocityPercent = Frac(0 - 60, 1)
    /\ \E k \in 1..Len(jars[1].records) :
          jars[1].records[k] = Rec("saved", 10, endOfMonth(memoNow))
    /\ \E k \in 1..Len(jars[1].records) :
          jars[1].records[k] = Rec("saved", 25, startOfMonth(memoNow) - 1)

-----------------------------------------------------------------------------
(* SpecPredict: the panel is mounted with three jars holding ten records:  *)
(* either the first jar has five daily savings of 10 and the second, whose *)
(* goal is reached, five more, or the first jar has ten savings 12 hours   *)
(* apart, listed newest first, the two oldest of 25.  The third jar is     *)
(* empty.  Savings of 10 and of -10 now, a saving of 25 dated 36 hours     *)
(* ago and a withdrawal arrive in any jar.                                 *)

ThirdName == <<"T", "r", "i", "p">>

DailyTens(d0) == [i \in 1..5 |-> Rec("saved", 10, At(d0 + i - 1, 12))]

(* record i is dated 12 * (10 - i) hours before noon of the base day *)
NewestFirst ==
    [i \in 1..10 |-> Rec("saved", IF i >= 9 THEN 25 ELSE 10, At(0, 12) - 12 * (i - 1))]

ExampleJar == [JarNamed(ShortName, 100, 50) EXCEPT !.records = DailyTens(0 - 4)]
LongJar == [JarNamed(ShortName, 100, 50) EXCEPT !.records = NewestFirst]
ReachedJar == [JarNamed(LongName, 50, 50) EXCEPT !.records = DailyTens(0 - 4)]

PredictCollections ==
    {<<ExampleJar, ReachedJar, JarNamed(ThirdName, 100, 20)>>,
     <<LongJar, JarNamed(LongName, 50, 50), JarNamed(ThirdName, 100, 20)>>}

PredictRecords(n) ==
    {Rec("saved", 10, n), Rec("saved", 0 - 10, n), Rec("saved", 25, n - 36),
     Rec("withdrawn", 10, n)}

InitPredict ==
    \E z \in TimeZones, js \in PredictCollections : Mounted(js, At(0, 13), z)

NextPredict ==
    \E j \in 1..3, r \in PredictRecords(now) : RenderNewRecord(j, r, 10 + MaxPredictAdds)

SpecPredict == InitPredict /\ [][NextPredict]_vars

(* the jar's saved records in chronological order, its last ten of them,   *)
(* their sum and the whole days from the first to the last of them         *)
SavedChronological(jar) == SortByDate(SelectSeq(jar.records, IsSaved))

LastTen(jar) ==
    LET st == SavedChronological(jar)
        m == IF Len(st) < 10 THEN Len(st) ELSE 10
    IN  [i \in 1..m |-> st[Len(st) - m + i]]

LastTenSum(jar) == SumAmounts(LastTen(jar))

LastTenDays(jar) ==
    LET whole == (LastTen(jar)[Len(LastTen(jar))].date - LastTen(jar)[1].date) \div 24
    IN  IF whole < 1 THEN 1 ELSE whole

(* at least two saved records, goal not reached, positive rate *)
Predictable(jar) ==
    /\ Len(SavedChronological(jar)) >= 2
    /\ jar.target - jar.saved > 0
    /\ LastTenSum(jar) > 0

(* C6: the predictions are those of the jars with at least two saved       *)
(* records, a goal not yet reached and a positive rate, in the jars'       *)
(* order; no entry has a null prediction.                                  *)
PredictionsOnlyForPredictable ==
    LET expected == SelectSeq(jars, Predictable)
    IN  /\ Len(analytics.predictions) = Len(expected)
        /\ \A i \in 1..Len(analytics.predictions) :
              /\ analytics.predictions[i].jarName = expected[i].name
              /\ analytics.predictions[i].prediction # Null
              /\ analytics.predictions[i].daysToGoal # Null

(* C6 witness: the first and third jars are predicted, in that order; the  *)
(* second, with five saved records and its goal reached, is dropped.       *)
PredictionsDropWitness ==
    /\ Len(analytics.predictions) = 2
    /\ analytics.predictions[1].jarName = ShortName
    /\ analytics.predictions[2].jarName = ThirdName
    /\ Len(SavedChronological(jars[2])) >= 2

(* C7: for each predicted jar, with rate = sum of its last ten saved       *)
(* amounts / max(1, whole days between the first and last of them),        *)
(* daysToGoal is the least whole number of days at that rate covering      *)
(* target - saved, and the predicted date is that many days after now; the *)
(* five daily savings of 10 towards 50 more give rate 12.5 and 4 days.     *)
DaysToGoalFromLastTen ==
    LET expected == SelectSeq(jars, Predictable)
    IN  /\ Len(analytics.predictions) = Len(expected)
        /\ \A i \in 1..Len(analytics.predictions) :
              LET p == analytics.predictions[i]
                  total == LastTenSum(expected[i])
                  days == LastTenDays(expected[i])
                  remaining == expected[i].target - expected[i].saved
                  k == p.daysToGoal[1]
              IN  /\ p.avgPerDay[1].num * days = total * p.avgPerDay[1].den
                  /\ (k - 1) * total < remaining * days
                  /\ remaining * days <= k * total
                  /\ p.prediction = Some(memoNow + k * 24)
        /\ jars[1] = ExampleJar =>
              /\ analytics.predictions[1].avgPerDay = Some([num |-> 25, den |-> 2])
              /\ analytics.predictions[1].daysToGoal = Some(4)

(* C7 witness: a predicted jar with more than ten saved records, the       *)
(* oldest of which is no longer counted, and a withdrawal.                 *)
DaysToGoalWitness ==
    /\ Len(SavedChronological(jars[1])) > 10
    /\ Len(jars[1].records) > Len(SavedChronological(jars[1]))
    /\ Len(analytics.predictions) > 0
    /\ analytics.predictions[1].jarName = ShortName
    /\ LastTenSum(jars[1]) < SumAmounts(SavedChronological(jars[1]))

-----------------------------------------------------------------------------
(* Day-of-week statistics, under SpecStreak.                               *)

(* the positions of the saved records dated on local weekday w (0 = Sunday) *)
SavedOnWeekday(js, w) ==
    {p \in SavedPositions(js) : LocalDay(RecordAt(js, p).date) % 7 = w}

(* C11: whenever a saved record exists, the worst day is a bucket with     *)
(* count > 0 whose amount is the least among the buckets with count > 0,   *)
(* the first such from Sunday to Saturday, and the best day is the first   *)
(* bucket with the greatest amount; a bucket's amount and count are the    *)
(* sum and the number of the saved records of its weekday.                 *)
WorstDayAmongCountedBuckets ==
    LET st == analytics.dayOfWeekStats
        counted == {i \in 1..7 : st[i].count > 0}
    IN  /\ \A i \in 1..7 :
              /\ st[i].count = Cardinality(SavedOnWeekday(jars, i - 1))
              /\ st[i].amount = SumAt(jars, SavedOnWeekday(jars, i - 1))
        /\ \E b \in 1..7 :
              /\ analytics.bestSavingDay = st[b]
              /\ \A j \in 1..7 : st[j].amount <= st[b].amount
              /\ \A j \in 1..(b - 1) : st[j].amount < st[b].amount
        /\ SavedPositions(jars) # {} =>
              \E w \in counted :
                  /\ analytics.worstSavingDay = st[w]
                  /\ \A j \in counted : st[w].amount <= st[j].amount
                  /\ \A j \in counted : j < w => st[w].amount < st[j].amount

-----------------------------------------------------------------------------
(* Weekly comparison, under SpecStreak.                                    *)

(* the local days today - 7*i .. today - 7*i + 6, today being the day of   *)
(* the derivation                                                          *)
WeekDays(i) ==
    (LocalDay(memoNow) - 7 * i)..(LocalDay(memoNow) - 7 * i + 6)

SavedOnDays(js, D) ==
    {p \in SavedPositions(js) : LocalDay(RecordAt(js, p).date) \in D}

(* C12: weeklyData has four entries labelled Week 1 .. Week 4, entry k     *)
(* (i = 4 - k) being the sum of the saved amounts dated on the days        *)
(* today - 7*i .. today - 7*i + 6; these windows are pairwise disjoint and *)
(* leave no day between them, so the four entries together count every     *)
(* saved record dated from the first window's first day to the last        *)
(* window's last day exactly once.                                         *)
WeeklyWindowsCoverEverySaving ==
    LET wd == analytics.weeklyData
    IN  /\ Len(wd) = 4
        /\ \A k \in 1..4 :
              /\ wd[k].week = <<"Week", k>>
              /\ wd[k].amount = SumAt(jars, SavedOnDays(jars, WeekDays(4 - k)))
        /\ \A i \in 0..3, j \in 0..3 : i # j => WeekDays(i) \cap WeekDays(j) = {}
        /\ UNION {WeekDays(i) : i \in 0..3}
              = (LocalDay(memoNow) - 21)..(LocalDay(memoNow) + 6)
        /\ wd[1].amount + wd[2].amount + wd[3].amount + wd[4].amount
              = SumAt(jars, SavedOnDays(jars,
                    (LocalDay(memoNow) - 21)..(LocalDay(memoNow) + 6)))

-----------------------------------------------------------------------------
(* The progress ring: a jar's ring is rendered with any progress from 0 to *)
(* MaxProgress, small or large.                                            *)

InitCircle == Mounted(<<JarNamed(ShortName, 100, 0)>>, At(0, 13), 0)

NextCircle == \E p \in 0..MaxProgress, large \in BOOLEAN : RenderCircle(p, large)

SpecCircle == InitCircle /\ [][NextCircle]_vars

FracAdd(a, b) == Frac(a.num * b.den + b.num * a.den, a.den * b.den)

(* the lengths of the segments painted before segment k, added up *)
EarlierLengths(k) ==
    LET sg == circle.segments
    IN  IF k = 1 THEN 0
        ELSE IF k = 2 THEN sg[1].length
        ELSE IF k = 3 THEN sg[1].length + sg[2].length
        ELSE sg[1].length + sg[2].length + sg[3].length

(* The angle, in degrees from the ring's origin, at which a segment's      *)
(* stroke starts: the path of its <circle> starts at the origin and is     *)
(* turned by the segment's rotation.                                       *)
StartAngle(seg) == seg.rotation

(* The degrees a segment's stroke sweeps: with a dash array of one length  *)
(* L, a dash of length L then a gap of length L, shifted back by the dash  *)
(* offset, the stroke covers the path from its start to L - offset; the    *)
(* whole path, 360 degrees, is as long as the dash array here.             *)
SweepAngle(seg) ==
    LET o == seg.strokeDashoffset
    IN  Frac((seg.strokeDasharray * o.den - o.num) * 360, seg.strokeDasharray * o.den)

EndAngle(seg) == FracAdd(StartAngle(seg), SweepAngle(seg))

(* The four lengths are within 0..25, add up to the progress up to 100 and *)
(* are all 25 above it, fill in order, and each rotation is 90 degrees     *)
(* times the earlier lengths over 25.                                      *)
SegmentLengthsAndRotations ==
    LET p == circle.progress
        sg == circle.segments
    IN  /\ \A k \in 1..4 : sg[k].length \in 0..25
        /\ p \in 0..100 => EarlierLengths(4) + sg[4].length = p
        /\ p > 100 => \A k \in 1..4 : sg[k].length = 25
        /\ \A k \in 1..4 : sg[k].length > 0 => \A j \in 1..(k - 1) : sg[j].length = 25
        /\ \A k \in 1..4 : sg[k].rotation = Frac(90 * EarlierLengths(k), 25)

(* C13: for every progress the segment lengths are within 0..25, add up to *)
(* the progress (to 100 above 100), fill in order, each rotation is 90     *)
(* degrees times the sum of the earlier lengths over 25, and every drawn   *)
(* segment after the first starts at the angle where the stroke of the     *)
(* segment before it ends.                                                 *)
DrawnSegmentStartsWherePreviousEnds ==
    /\ SegmentLengthsAndRotations
    /\ \A k \in 2..4 :
          circle.segments[k].drawn =>
              StartAngle(circle.segments[k]) = EndAngle(circle.segments[k - 1])

====
